---- MODULE Spec2Model ----
(***************************************************************************)
(* Model of src/app.py: the aluminium storefront's tables (Admin,          *)
(* Category, Product, LaborCost, Invoice) and the request handlers and CLI *)
(* commands that write them.  Each handler is one atomic action in Spec;   *)
(* SpecConc runs create_invoice as two interleaved requests, one step per  *)
(* group of source lines.                                                  *)
(*                                                                         *)
(* Not modelled: columns no handler reads after writing them               *)
(* (description, image_url, created_at, password_hash) and the rendering   *)
(* of templates.  A route under @login_required is enabled only once an    *)
(* Admin row exists (nobody can log in before that); an anonymous request  *)
(* is redirected without touching storage and is a stuttering step.        *)
(***************************************************************************)
EXTENDS Integers, Sequences, FiniteSets

VARIABLES admin, category, product, labor_cost, invoice, response, req

vars == <<admin, category, product, labor_cost, invoice, response, req>>

tables == <<admin, category, product, labor_cost, invoice>>

\* ------------------------------------------------------------------ bounds

MaxInvoices == 2

MaxProducts == 1

MaxCategories == 1

\* ------------------------------------------------------- values and parsing

\* Python floats: a finite value (integer-valued in this model), an infinity
\* with its sign, or NaN.  Null is SQL NULL / Python None in a numeric column.
Fin(x) == [k |-> "fin", v |-> x]

Inf(s) == [k |-> "inf", v |-> s]

NaN == [k |-> "nan", v |-> 0]

Null == [k |-> "null", v |-> 0]

\* Python None in a text field (request.form.get of an absent key).
None == "None"

Sgn(x) == IF x > 0 THEN 1 ELSE IF x < 0 THEN -1 ELSE 0

\* float * float (IEEE 754): NaN is absorbing, inf * 0 is NaN.
FMul(a, b) ==
  IF a.k = "nan" \/ b.k = "nan" THEN NaN
  ELSE IF a.k = "inf" \/ b.k = "inf"
       THEN IF Sgn(a.v) * Sgn(b.v) = 0 THEN NaN ELSE Inf(Sgn(a.v) * Sgn(b.v))
       ELSE Fin(a.v * b.v)

\* float == float: NaN equals nothing, itself included.
FEq(a, b) == a.k \in {"fin", "inf"} /\ a = b

\* float > 0
FPos(a) == a.k \in {"fin", "inf"} /\ a.v > 0

FFinite(a) == a.k = "fin"

\* Form fields are strings, modelled as sequences of characters.
Digits == {"0", "1", "2", "3", "4", "5", "6", "7", "8", "9"}

DigitVal(c) ==
  CASE c = "0" -> 0 [] c = "1" -> 1 [] c = "2" -> 2 [] c = "3" -> 3
    [] c = "4" -> 4 [] c = "5" -> 5 [] c = "6" -> 6 [] c = "7" -> 7
    [] c = "8" -> 8 [] c = "9" -> 9

RECURSIVE DecVal(_)
DecVal(s) ==
  IF s = <<>> THEN 0
  ELSE 10 * DecVal(SubSeq(s, 1, Len(s) - 1)) + DigitVal(s[Len(s)])

AllDigits(s) == Len(s) > 0 /\ \A i \in 1..Len(s) : s[i] \in Digits

Signed(s) == Len(s) > 0 /\ s[1] \in {"-", "+"}

Body(s) == IF Signed(s) THEN Tail(s) ELSE s

SignOf(s) == IF Len(s) > 0 /\ s[1] = "-" THEN -1 ELSE 1

Ok(x) == [ok |-> TRUE, val |-> x]

Raise == [ok |-> FALSE, val |-> 0]

\* int(str): an optional sign and decimal digits; anything else ("2.0",
\* "inf", "abc", "") raises ValueError.
ParseInt(s) ==
  IF AllDigits(Body(s)) THEN Ok(SignOf(s) * DecVal(Body(s))) ELSE Raise

DotAt(s) == {i \in 1..Len(s) : s[i] = "."}

\* float(str): [sign] "inf" | "nan" | digits | digits "." zeros; anything
\* else raises ValueError.  (The token sets below hold no literal with a
\* non-zero fraction, so every finite value is an integer.)
ParseFloat(s) ==
  LET b == Body(s) IN
  IF b = <<"i", "n", "f">> THEN Ok(Inf(SignOf(s)))
  ELSE IF b = <<"n", "a", "n">> THEN Ok(NaN)
  ELSE IF AllDigits(b) THEN Ok(Fin(SignOf(s) * DecVal(b)))
  ELSE IF Cardinality(DotAt(b)) = 1
       THEN LET d == CHOOSE i \in DotAt(b) : TRUE
                whole == SubSeq(b, 1, d - 1)
                frac == SubSeq(b, d + 1, Len(b))
            IN IF AllDigits(whole) /\ AllDigits(frac)
                  /\ \A i \in 1..Len(frac) : frac[i] = "0"
               THEN Ok(Fin(SignOf(s) * DecVal(whole)))
               ELSE Raise
       ELSE Raise

\* ------------------------------------------------------------------ storage

\* sqlite3 binds a NaN parameter as NULL; every other float is stored as is.
BindFloat(x) == IF x.k = "nan" THEN Null ELSE x

Ids(table) == {table[i].id : i \in 1..Len(table)}

MaxOf(S) == CHOOSE m \in S : \A x \in S : x <= m

\* Mutant of NextId: the largest id, not the one after it.
NextIdStuck(table) == IF table = <<>> THEN 1 ELSE MaxOf(Ids(table))

\* INTEGER PRIMARY KEY: a new row gets the largest id in the table plus one.
NextId(table) == IF table = <<>> THEN 1 ELSE MaxOf(Ids(table)) + 1

\* Query.get(id): the row with that primary key, or None.
Found(table, id) == \E i \in 1..Len(table) : table[i].id = id

Get(table, id) == table[CHOOSE i \in 1..Len(table) : table[i].id = id]

\* Query.first()
First(table) == table[1]

\* ------------------------------------------------------------- request data

\* The form values the model submits.
ProductIdTokens == {<<"1">>, <<"9">>, <<"x">>}

HeightTokens == {<<"2", ".", "0">>, <<"n", "a", "n">>, <<"x">>}

WidthTokens == {<<"3">>, <<"0">>}

QuantityTokens == {<<"2">>, <<"2", ".", "0">>}

PriceTokens == {<<"5", "0">>, <<"n", "a", "n">>, <<"x">>}

RateTokens == {<<"6", "0">>, <<"n", "a", "n">>, <<"x">>}

CategoryIdTokens == {<<"1">>, <<"x">>}

Names == {"Door", None}

CategoryNames == {"Windows", ""}

Customers ==
  {[customer_name |-> "Ann", customer_phone |-> "555", customer_address |-> "Elm St"],
   [customer_name |-> None, customer_phone |-> "555", customer_address |-> "Elm St"]}

InvoiceForms ==
  [product_id : ProductIdTokens, customer : Customers, height : HeightTokens,
   width : WidthTokens, quantity : QuantityTokens]

\* int() and float() of each form value the model submits, computed once.
IntTokens == ProductIdTokens \cup QuantityTokens \cup CategoryIdTokens

FloatTokens == HeightTokens \cup WidthTokens \cup PriceTokens \cup RateTokens

IntOf == [s \in IntTokens |-> ParseInt(s)]

FloatOf == [s \in FloatTokens |-> ParseFloat(s)]

\* ---------------------------------------------------------------- responses

\* The response to the request handled in the last step; NoResponse when the
\* last step was not a request.  id is the invoice_id of a redirect to
\* view_invoice (or the id of the page shown), rate the labor_rate handed to
\* product.html.
NoResponse ==
  [route |-> "", status |-> 0, location |-> "", flash |-> "", id |-> 0, rate |-> Null]

Redirect(route, location) ==
  [NoResponse EXCEPT !.route = route, !.status = 302, !.location = location]

\* An exception no handler catches: the framework answers 500.
ServerError(route) == [NoResponse EXCEPT !.route = route, !.status = 500]

\* get_or_404
NotFound(route) == [NoResponse EXCEPT !.route = route, !.status = 404]

\* flash(message); redirect(url_for('admin_dashboard')).  The message of a
\* caught exception is modelled by the exception's class.
Flash(route, message) ==
  [Redirect(route, "admin_dashboard") EXCEPT !.flash = message]

\* @login_required lets a request through only for a logged-in Admin, and
\* there is one to log in as only once the Admin table has a row.
LoginPossible == admin # <<>>

\* ------------------------------------------------- init_database, create_admin

HasAdmin(admins, username) ==
  \E i \in 1..Len(admins) : admins[i].username = username

\* Mutant of Insert: the row is merged into the last row instead of added.
InsertMerging(table, row) ==
  IF table = <<>> THEN <<[row EXCEPT !.id = 1]>>
  ELSE [table EXCEPT ![Len(table)] = [row EXCEPT !.id = table[Len(table)].id]]

\* db.session.add(row); db.session.commit(): the row is appended under a
\* fresh primary key.
Insert(table, row) == Append(table, [row EXCEPT !.id = NextId(table)])

\* Lines 74-78 and 93-96: the default admin is added when there is none.
EnsureAdmin(admins) ==
  IF ~HasAdmin(admins, "admin")
  THEN Insert(admins, [id |-> 0, username |-> "admin"])
  ELSE admins

\* Lines 80-81 and 99-100, inside the same `if`: with the admin, the
\* LaborCost row is added when the table is empty.
EnsureLabor(admins, labor) ==
  IF ~HasAdmin(admins, "admin") /\ labor = <<>>
  THEN Insert(labor, [id |-> 0, rate_per_sqft |-> Fin(50)])
  ELSE labor

init_database ==
  /\ admin' = EnsureAdmin(admin)
  /\ labor_cost' = EnsureLabor(admin, labor_cost)
  /\ response' = NoResponse
  /\ UNCHANGED <<category, product, invoice, req>>

create_admin ==
  /\ admin' = EnsureAdmin(admin)
  /\ labor_cost' = EnsureLabor(admin, labor_cost)
  /\ response' = NoResponse
  /\ UNCHANGED <<category, product, invoice, req>>

\* ------------------------------------------------------------- add_category

\* `if name:` is false for None and for the empty string.
Truthy(text) == text # None /\ text # ""

add_category(name, commit_ok) ==
  /\ LoginPossible
  /\ Len(category) < MaxCategories
  /\ IF Truthy(name) /\ ~commit_ok
     THEN response' = ServerError("add_category") /\ UNCHANGED category
     ELSE /\ category' = IF Truthy(name)
                         THEN Insert(category, [id |-> 0, name |-> name])
                         ELSE category
          /\ response' = Redirect("add_category", "admin_dashboard")
  /\ UNCHANGED <<admin, product, labor_cost, invoice, req>>

\* -------------------------------------------------------------- add_product

\* Product's nullable=False columns (category_id is an int here; SQLite does
\* not enforce the foreign key).
ProductStorable(row) ==
  row.name # None /\ BindFloat(row.price_per_sqft) # Null

add_product(name, price, category_id, commit_ok) ==
  /\ LoginPossible
  /\ Len(product) < MaxProducts
  /\ LET p == FloatOf[price]
         c == IntOf[category_id]
         row == [id |-> 0, name |-> name, price_per_sqft |-> p.val,
                 category_id |-> c.val]
     IN IF p.ok /\ c.ok /\ ProductStorable(row) /\ commit_ok
        THEN /\ product' = Insert(product, row)
             /\ response' = Redirect("add_product", "admin_dashboard")
        ELSE response' = ServerError("add_product") /\ UNCHANGED product
  /\ UNCHANGED <<admin, category, labor_cost, invoice, req>>

\* A change of a live Product's price.  app.py has no route for it; the data
\* model allows it ("only the live Product may change independently"), and
\* this action stands for any such change of the row.
EditablePrices == {Fin(50), Fin(60)}

edit_product_price(i, price) ==
  /\ LoginPossible
  /\ i \in 1..Len(product)
  /\ product' = [product EXCEPT ![i].price_per_sqft = price]
  /\ response' = NoResponse
  /\ UNCHANGED <<admin, category, labor_cost, invoice, req>>

\* ------------------------------------------------------------- update_labor

\* Lines 197-203: the first LaborCost row gets the rate, or a row is added
\* when the table is empty.  rate_per_sqft is nullable.
SetLaborRate(labor, rate) ==
  IF labor = <<>>
  THEN Insert(labor, [id |-> 0, rate_per_sqft |-> BindFloat(rate)])
  ELSE [labor EXCEPT ![1].rate_per_sqft = BindFloat(rate)]

update_labor(rate, commit_ok) ==
  /\ LoginPossible
  /\ LET r == FloatOf[rate]
     IN IF r.ok /\ commit_ok
        THEN /\ labor_cost' = SetLaborRate(labor_cost, r.val)
             /\ response' = Redirect("update_labor", "admin_dashboard")
        ELSE response' = ServerError("update_labor") /\ UNCHANGED labor_cost
  /\ UNCHANGED <<admin, category, product, invoice, req>>

\* ----------------------------------------------------------- product_detail

\* Lines 126-127: the rate the page shows.
LaborRate(labor) == IF labor # <<>> THEN First(labor).rate_per_sqft ELSE Fin(0)

product_detail(product_id) ==
  /\ response' = IF Found(product, product_id)
                 THEN [NoResponse EXCEPT !.route = "product_detail", !.status = 200,
                                         !.rate = LaborRate(labor_cost)]
                 ELSE NotFound("product_detail")
  /\ UNCHANGED <<admin, category, product, labor_cost, invoice, req>>

\* ----------------------------------------------------------- create_invoice

NoArgs ==
  [ok |-> FALSE, product_id |-> 0, height |-> Null, width |-> Null, quantity |-> 0]

\* Lines 210-216: int() and float() of the form fields, in source order; the
\* first that raises ends the try block.
ParseArgs(form) ==
  IF ~IntOf[form.product_id].ok THEN NoArgs
  ELSE IF ~FloatOf[form.height].ok THEN NoArgs
  ELSE IF ~FloatOf[form.width].ok THEN NoArgs
  ELSE IF ~IntOf[form.quantity].ok THEN NoArgs
  ELSE [ok |-> TRUE,
        product_id |-> IntOf[form.product_id].val,
        height |-> FloatOf[form.height].val,
        width |-> FloatOf[form.width].val,
        quantity |-> IntOf[form.quantity].val]

\* Mutant of Total: the quantity is left out.
TotalWithoutQuantity(height, width, price, quantity) ==
  FMul(FMul(height, width), price)

\* Lines 224-225: sqft = height * width; total = sqft * price * quantity
\* (the int quantity is converted to float by the multiplication).
Total(height, width, price, quantity) ==
  FMul(FMul(FMul(height, width), price), Fin(quantity))

\* Lines 227-238: the Invoice object, as its columns are bound on flush.
InvoiceRow(form, args, prod, total) ==
  [id |-> 0,
   customer_name |-> form.customer.customer_name,
   customer_phone |-> form.customer.customer_phone,
   customer_address |-> form.customer.customer_address,
   product_id |-> args.product_id,
   product_name |-> prod.name,
   height_ft |-> BindFloat(args.height),
   width_ft |-> BindFloat(args.width),
   quantity |-> args.quantity,
   sqft_price_at_booking |-> BindFloat(prod.price_per_sqft),
   total_amount |-> BindFloat(total)]

\* Invoice's nullable=False columns (product_id and quantity are ints here).
InvoiceStorable(row) ==
  /\ row.customer_name # None
  /\ row.customer_phone # None
  /\ row.customer_address # None
  /\ row.height_ft # Null
  /\ row.width_ft # Null
  /\ row.sqft_price_at_booking # Null
  /\ row.total_amount # Null

\* Mutant of CommitInvoice: the row is added twice.
CommitInvoiceTwice(invoices, row, commit_ok) ==
  IF ~InvoiceStorable(row)
  THEN [invoice |-> invoices, response |-> Flash("create_invoice", "IntegrityError")]
  ELSE IF ~commit_ok
  THEN [invoice |-> invoices, response |-> Flash("create_invoice", "OperationalError")]
  ELSE [invoice |-> Insert(Insert(invoices, row), row),
        response |-> [Redirect("create_invoice", "view_invoice")
                        EXCEPT !.id = NextId(invoices)]]

\* Mutant of CommitInvoice: a refused commit leaves the added row behind.
CommitInvoiceNoRollback(invoices, row, commit_ok) ==
  IF ~InvoiceStorable(row)
  THEN [invoice |-> invoices, response |-> Flash("create_invoice", "IntegrityError")]
  ELSE IF ~commit_ok
  THEN [invoice |-> Insert(invoices, row),
        response |-> Flash("create_invoice", "OperationalError")]
  ELSE [invoice |-> Insert(invoices, row),
        response |-> [Redirect("create_invoice", "view_invoice")
                        EXCEPT !.id = NextId(invoices)]]

\* Lines 239-245: add and commit.  A row that breaks a constraint, or a
\* commit the storage refuses, raises; the except clause flashes the message
\* and nothing is written.
CommitInvoice(invoices, row, commit_ok) ==
  IF ~InvoiceStorable(row)
  THEN [invoice |-> invoices, response |-> Flash("create_invoice", "IntegrityError")]
  ELSE IF ~commit_ok
  THEN [invoice |-> invoices, response |-> Flash("create_invoice", "OperationalError")]
  ELSE [invoice |-> Insert(invoices, row),
        response |-> [Redirect("create_invoice", "view_invoice")
                        EXCEPT !.id = NextId(invoices)]]

\* Lines 223-240 for a Product that was found.
BookInvoice(form, args, prod, invoices, commit_ok) ==
  CommitInvoice(invoices,
                InvoiceRow(form, args, prod,
                           Total(args.height, args.width, prod.price_per_sqft,
                                 args.quantity)),
                commit_ok)

\* Mutant of CreateInvoice: no `if not product`; product.name of None raises
\* AttributeError, which the except clause flashes.
CreateInvoiceUnchecked(form, products, invoices, commit_ok) ==
  LET args == ParseArgs(form) IN
  IF ~args.ok
  THEN [invoice |-> invoices, response |-> Flash("create_invoice", "ValueError")]
  ELSE IF ~Found(products, args.product_id)
  THEN [invoice |-> invoices, response |-> Flash("create_invoice", "AttributeError")]
  ELSE BookInvoice(form, args, Get(products, args.product_id), invoices, commit_ok)

\* Mutant of CreateInvoice: the product is looked up as soon as product_id
\* is parsed, before height, width and quantity are.
CreateInvoiceLookupFirst(form, products, invoices, commit_ok) ==
  LET args == ParseArgs(form) IN
  IF ~IntOf[form.product_id].ok
  THEN [invoice |-> invoices, response |-> Flash("create_invoice", "ValueError")]
  ELSE IF ~Found(products, IntOf[form.product_id].val)
  THEN [invoice |-> invoices,
        response |-> Flash("create_invoice", "Product not found")]
  ELSE IF ~args.ok
  THEN [invoice |-> invoices, response |-> Flash("create_invoice", "ValueError")]
  ELSE BookInvoice(form, args, Get(products, args.product_id), invoices, commit_ok)

\* The whole handler, lines 209-245: the Invoice table and the response it
\* leaves.
CreateInvoice(form, products, invoices, commit_ok) ==
  LET args == ParseArgs(form) IN
  IF ~args.ok
  THEN [invoice |-> invoices, response |-> Flash("create_invoice", "ValueError")]
  ELSE IF ~Found(products, args.product_id)
  THEN [invoice |-> invoices,
        response |-> Flash("create_invoice", "Product not found")]
  ELSE BookInvoice(form, args, Get(products, args.product_id), invoices, commit_ok)

create_invoice(form, commit_ok) ==
  /\ LoginPossible
  /\ Len(invoice) < MaxInvoices
  /\ LET r == CreateInvoice(form, product, invoice, commit_ok)
     IN invoice' = r.invoice /\ response' = r.response
  /\ UNCHANGED <<admin, category, product, labor_cost, req>>

\* ------------------------------------------------------------- view_invoice

ViewInvoice(invoices, invoice_id) ==
  IF Found(invoices, invoice_id)
  THEN [NoResponse EXCEPT !.route = "view_invoice", !.status = 200,
                          !.id = Get(invoices, invoice_id).id]
  ELSE NotFound("view_invoice")

view_invoice(invoice_id) ==
  /\ LoginPossible
  /\ response' = ViewInvoice(invoice, invoice_id)
  /\ UNCHANGED <<admin, category, product, labor_cost, invoice, req>>

\* ------------------------------------------- create_invoice, step by step

\* Two requests, each running create_invoice once.
Procs == {"r1", "r2"}

NoForm ==
  [product_id |-> <<>>, customer |-> [customer_name |-> None, customer_phone |-> None,
                                      customer_address |-> None],
   height |-> <<>>, width |-> <<>>, quantity |-> <<>>]

NoProduct == [id |-> 0, name |-> None, price_per_sqft |-> Null, category_id |-> 0]

\* A request's locals: form, the parsed values, the Product object it
\* loaded, the total it computed, and its response once it has returned.
Idle ==
  [pc |-> "idle", form |-> NoForm, args |-> NoArgs, prod |-> NoProduct,
   total |-> Null, response |-> NoResponse]

ConcForms ==
  {f \in InvoiceForms : f.customer.customer_name = "Ann" /\ f.quantity = <<"2">>}

Return(p, resp) == req' = [req EXCEPT ![p].pc = "done", ![p].response = resp]

\* Lines 210-216.
conc_parse(p, form) ==
  /\ LoginPossible
  /\ req[p].pc = "idle"
  /\ LET args == ParseArgs(form)
     IN IF args.ok
        THEN req' = [req EXCEPT ![p].pc = "lookup", ![p].form = form, ![p].args = args]
        ELSE req' = [req EXCEPT ![p].pc = "done", ![p].form = form,
                                ![p].response = Flash("create_invoice", "ValueError")]
  /\ UNCHANGED <<admin, category, product, labor_cost, invoice, response>>

\* Lines 218-221.
conc_lookup(p) ==
  /\ req[p].pc = "lookup"
  /\ IF Found(product, req[p].args.product_id)
     THEN req' = [req EXCEPT ![p].pc = "compute",
                             ![p].prod = Get(product, req[p].args.product_id)]
     ELSE Return(p, Flash("create_invoice", "Product not found"))
  /\ UNCHANGED <<admin, category, product, labor_cost, invoice, response>>

\* Lines 224-225.
conc_compute(p) ==
  /\ req[p].pc = "compute"
  /\ req' = [req EXCEPT ![p].pc = "commit",
                        ![p].total = Total(req[p].args.height, req[p].args.width,
                                           req[p].prod.price_per_sqft,
                                           req[p].args.quantity)]
  /\ UNCHANGED <<admin, category, product, labor_cost, invoice, response>>

\* Mutant of Loaded: the Product is read again when the row is built.
LoadedAgain(p) == Get(product, req[p].args.product_id)

\* Lines 232 and 236: the Product object loaded at line 218.
Loaded(p) == req[p].prod

\* Lines 227-245: the insert and its commit are one transaction of the
\* storage engine.
conc_commit(p, commit_ok) ==
  /\ req[p].pc = "commit"
  /\ LET row == InvoiceRow(req[p].form, req[p].args, Loaded(p), req[p].total)
         r == CommitInvoice(invoice, row, commit_ok)
     IN invoice' = r.invoice /\ Return(p, r.response)
  /\ UNCHANGED <<admin, category, product, labor_cost, response>>

\* --------------------------------------------------------- the specifications

Init ==
  /\ admin = <<>>
  /\ category = <<>>
  /\ product = <<>>
  /\ labor_cost = <<>>
  /\ invoice = <<>>
  /\ response = NoResponse
  /\ req = [p \in Procs |-> Idle]

Next ==
  \/ init_database
  \/ create_admin
  \/ \E name \in CategoryNames, ok \in BOOLEAN : add_category(name, ok)
  \/ \E name \in Names, price \in PriceTokens, c \in CategoryIdTokens, ok \in BOOLEAN :
       add_product(name, price, c, ok)
  \/ \E i \in 1..MaxProducts, price \in EditablePrices : edit_product_price(i, price)
  \/ \E rate \in RateTokens, ok \in BOOLEAN : update_labor(rate, ok)
  \/ \E id \in 1..MaxProducts + 1 : product_detail(id)
  \/ \E form \in InvoiceForms, ok \in BOOLEAN : create_invoice(form, ok)
  \/ \E id \in 1..MaxInvoices + 1 : view_invoice(id)

Spec == Init /\ [][Next]_vars

NextConc ==
  \/ init_database
  \/ \E name \in Names, price \in PriceTokens, c \in CategoryIdTokens, ok \in BOOLEAN :
       add_product(name, price, c, ok)
  \/ \E i \in 1..MaxProducts, price \in EditablePrices : edit_product_price(i, price)
  \/ \E p \in Procs, form \in ConcForms : conc_parse(p, form)
  \/ \E p \in Procs : conc_lookup(p)
  \/ \E p \in Procs : conc_compute(p)
  \/ \E p \in Procs, ok \in BOOLEAN : conc_commit(p, ok)

SpecConc == Init /\ [][NextConc]_vars

\* ------------------------------------------------------------------- claims

Rows(table) == {table[i] : i \in 1..Len(table)}

\* All four numeric form fields parse.
WellParsed(form) ==
  /\ IntOf[form.product_id].ok
  /\ FloatOf[form.height].ok
  /\ FloatOf[form.width].ok
  /\ IntOf[form.quantity].ok

\* product_id parses and is the id of a Product.
NamesProduct(form) ==
  IntOf[form.product_id].ok /\ Found(product, IntOf[form.product_id].val)

\* height * width * price * quantity of a stored row.
Product4(row) ==
  FMul(FMul(FMul(row.height_ft, row.width_ft), row.sqft_price_at_booking),
       Fin(row.quantity))

\* C1: every persisted Invoice has total_amount = height_ft * width_ft *
\* sqft_price_at_booking * quantity, and a row create_invoice has just added
\* carries the price_per_sqft its Product had when the handler ran
\* (price 50, height 10, width 5, quantity 2 gives 5000).
C1_TotalIsProduct ==
  [][/\ \A i \in 1..Len(invoice') :
          /\ FEq(invoice'[i].total_amount, Product4(invoice'[i]))
          /\ i > Len(invoice) =>
               /\ Found(product, invoice'[i].product_id)
               /\ invoice'[i].sqft_price_at_booking
                    = Get(product, invoice'[i].product_id).price_per_sqft
     /\ Total(Fin(10), Fin(5), Fin(50), 2) = Fin(5000)]_vars

\* An invoice booked at 60 (2 * 3 * 60 * 2 = 720) whose Product costs 50 now.
C1_Witness ==
  \E i \in 1..Len(invoice) :
    /\ invoice[i].total_amount = Fin(720)
    /\ Found(product, invoice[i].product_id)
    /\ Get(product, invoice[i].product_id).price_per_sqft = Fin(50)

\* C2: create_invoice with a product_id that matches no Product, the other
\* inputs well-formed, ends in "Product not found" and leaves the Invoice
\* table as it was.
C2_MissingProductNoWrite ==
  \A form \in InvoiceForms, ok \in BOOLEAN :
    (WellParsed(form) /\ ~NamesProduct(form)) =>
      LET r == CreateInvoice(form, product, invoice, ok)
      IN /\ r.response = Flash("create_invoice", "Product not found")
         /\ r.invoice = invoice
         /\ Len(r.invoice) = Len(invoice)

\* The not-found outcome, with a Product and an Invoice in storage.
C2_Witness ==
  /\ response = Flash("create_invoice", "Product not found")
  /\ product # <<>>
  /\ invoice # <<>>

C4_CreateInvoiceFrame ==
  [][response'.route = "create_invoice" =>
       /\ product' = product
       /\ category' = category
       /\ labor_cost' = labor_cost
       /\ admin' = admin
       /\ response'.location = "view_invoice" =>
            /\ Len(invoice') = Len(invoice) + 1
            /\ SubSeq(invoice', 1, Len(invoice)) = invoice]_vars

\* A successful create_invoice with a Category, a Product and an earlier
\* Invoice in storage.
C4_Witness ==
  /\ response.route = "create_invoice"
  /\ response.location = "view_invoice"
  /\ category # <<>>
  /\ Len(invoice) = 2

\* C5: create_invoice rejects a height or width that is not a positive
\* finite number and a quantity that is not a positive integer, so every
\* persisted Invoice has height_ft > 0, width_ft > 0 and quantity > 0.
C5_StoredDimensionsPositive ==
  \A row \in Rows(invoice) :
    /\ FPos(row.height_ft) /\ FFinite(row.height_ft)
    /\ FPos(row.width_ft) /\ FFinite(row.width_ft)
    /\ row.quantity > 0

\* C6: a create_invoice step that fails, for whatever reason, leaves every
\* table as it was, and no row with a missing field is ever in the Invoice
\* table.
C6_AllOrNothing ==
  [][/\ (response'.route = "create_invoice" /\ response'.location # "view_invoice")
          => tables' = tables
     /\ \A row \in Rows(invoice') :
          /\ None \notin {row.customer_name, row.customer_phone, row.customer_address,
                          row.product_name}
          /\ Null \notin {row.height_ft, row.width_ft, row.sqft_price_at_booking,
                          row.total_amount}
          /\ row.id > 0]_vars

\* A commit the storage refused, with an Invoice already in the table.
C6_Witness ==
  /\ response = Flash("create_invoice", "OperationalError")
  /\ Len(invoice) = 1

\* C7: a successful create_invoice redirects to view_invoice with the id of
\* the row it inserted; no other Invoice has that id, and view_invoice finds
\* under it the row with this call's inputs and total.
C7_ReturnsNewId ==
  \A form \in InvoiceForms :
    (WellParsed(form) /\ NamesProduct(form)) =>
      LET r == CreateInvoice(form, product, invoice, TRUE)
          id == r.response.id
          prod == Get(product, IntOf[form.product_id].val)
      IN r.response.location = "view_invoice" =>
           /\ id \notin Ids(invoice)
           /\ Cardinality({i \in 1..Len(r.invoice) : r.invoice[i].id = id}) = 1
           /\ ViewInvoice(r.invoice, id).status = 200
           /\ ViewInvoice(r.invoice, id).id = id
           /\ Get(r.invoice, id) =
                [id |-> id,
                 customer_name |-> form.customer.customer_name,
                 customer_phone |-> form.customer.customer_phone,
                 customer_address |-> form.customer.customer_address,
                 product_id |-> IntOf[form.product_id].val,
                 product_name |-> prod.name,
                 height_ft |-> FloatOf[form.height].val,
                 width_ft |-> FloatOf[form.width].val,
                 quantity |-> IntOf[form.quantity].val,
                 sqft_price_at_booking |-> prod.price_per_sqft,
                 total_amount |->
                   FMul(FMul(FMul(FloatOf[form.height].val, FloatOf[form.width].val),
                             prod.price_per_sqft),
                        Fin(IntOf[form.quantity].val))]

\* The second invoice was created and the response names it.
C7_Witness ==
  /\ response.route = "create_invoice"
  /\ response.location = "view_invoice"
  /\ response.id = 2
  /\ Len(invoice) = 2
  /\ invoice[2].id = 2

\* What a request that went through was asked to book.
OwnRow(r, row) ==
  /\ row.customer_name = r.form.customer.customer_name
  /\ row.customer_phone = r.form.customer.customer_phone
  /\ row.customer_address = r.form.customer.customer_address
  /\ row.product_id = IntOf[r.form.product_id].val
  /\ row.height_ft = FloatOf[r.form.height].val
  /\ row.width_ft = FloatOf[r.form.width].val
  /\ row.quantity = IntOf[r.form.quantity].val
  /\ row.product_name = r.prod.name
  /\ row.sqft_price_at_booking = r.prod.price_per_sqft
  /\ FEq(row.total_amount,
         FMul(FMul(FMul(FloatOf[r.form.height].val, FloatOf[r.form.width].val),
                   r.prod.price_per_sqft),
              Fin(IntOf[r.form.quantity].val)))

Created(p) == req[p].pc = "done" /\ req[p].response.location = "view_invoice"

\* C8: two create_invoice requests interleaved at their read, compute and
\* insert steps are independent: each one that found its Product, built a
\* storable row and had its commit accepted is persisted, under an id of its
\* own, with its own inputs, the price it read and the total computed from
\* that price; the table holds exactly those rows.
C8_RequestsIndependent ==
  /\ \A p \in Procs :
       /\ Created(p) =>
            /\ Found(invoice, req[p].response.id)
            /\ OwnRow(req[p], Get(invoice, req[p].response.id))
       /\ (req[p].pc = "done" /\ ~Created(p)) =>
            \/ /\ req[p].response.flash = "ValueError"
               /\ ~WellParsed(req[p].form)
            \/ /\ req[p].response.flash = "Product not found"
               /\ req[p].prod = NoProduct
            \/ /\ req[p].response.flash = "IntegrityError"
               /\ NaN \in {FloatOf[req[p].form.height].val,
                           FloatOf[req[p].form.width].val, req[p].total}
            \/ req[p].response.flash = "OperationalError"
  /\ \A p, q \in Procs :
       (p # q /\ Created(p) /\ Created(q)) => req[p].response.id # req[q].response.id
  /\ Len(invoice) = Cardinality({p \in Procs : Created(p)})
  /\ Cardinality(Ids(invoice)) = Len(invoice)

\* Both requests booked the same Product, one at the price of 50 it read
\* before the price changed and one at 60.
C8_Witness ==
  /\ \A p \in Procs : Created(p)
  /\ req["r1"].args.product_id = req["r2"].args.product_id
  /\ req["r1"].prod.price_per_sqft = Fin(50)
  /\ req["r2"].prod.price_per_sqft = Fin(60)
  /\ req["r1"].response.id = 2
  /\ req["r2"].response.id = 1

\* C9 as claimed: the product lookup is the first check, so a product_id
\* that names no Product always ends in "Product not found", whatever
\* height, width and quantity are.
C9_LookupIsFirstCheck ==
  LoginPossible =>
    \A form \in InvoiceForms, ok \in BOOLEAN :
      (IntOf[form.product_id].ok /\ ~NamesProduct(form)) =>
        CreateInvoice(form, product, invoice, ok).response
          = Flash("create_invoice", "Product not found")

\* C9 as amended: the four fields are parsed first.  If one of them does not
\* parse the outcome is the parse error, whether or not product_id names a
\* Product; "Product not found" is the outcome exactly when all four parse
\* and product_id names no Product, whatever the parsed values are; neither
\* outcome writes.
C9_ParsingIsFirstCheck ==
  \A form \in InvoiceForms, ok \in BOOLEAN :
    LET r == CreateInvoice(form, product, invoice, ok)
    IN /\ ~WellParsed(form) =>
            r = [invoice |-> invoice,
                 response |-> Flash("create_invoice", "ValueError")]
       /\ (WellParsed(form) /\ ~NamesProduct(form)) =>
            r = [invoice |-> invoice,
                 response |-> Flash("create_invoice", "Product not found")]
       /\ (WellParsed(form) /\ NamesProduct(form)) =>
            r.response.flash \notin {"ValueError", "Product not found"}

\* A parse error was reported while no Product exists at all.
C9_Witness ==
  /\ response = Flash("create_invoice", "ValueError")
  /\ product = <<>>
  /\ LoginPossible

\* C10: storage holds at most one LaborCost row and at most one Admin named
\* 'admin', and after update_labor(rate) the rate product_detail reads is
\* that rate.
C10_RateIsLastPassed ==
  /\ Len(labor_cost) <= 1
  /\ Cardinality({i \in 1..Len(admin) : admin[i].username = "admin"}) <= 1
  /\ LoginPossible =>
       \A rate \in RateTokens :
         FloatOf[rate].ok =>
           /\ Len(SetLaborRate(labor_cost, FloatOf[rate].val)) = 1
           /\ LaborRate(SetLaborRate(labor_cost, FloatOf[rate].val)) = FloatOf[rate].val

====
